---- MODULE Spec2Model ----
(***************************************************************************)
(* Model of the WA suburb enrichment pipeline of                           *)
(* scripts/process_geographic_data_final_fixed.py                          *)
(* (class WASuburbProcessorFinalFixed): the two-phase police district      *)
(* spatial join, the SA2 name matching, the suburb classifier, the         *)
(* economic-base inference and the coverage summary.                       *)
(*                                                                         *)
(* Encoding.  Strings the code inspects character by character (suburb and *)
(* locality names) are sequences of one-character strings.  A geometry is  *)
(* the non-empty set of grid cells it covers: a.within(b) is a \subseteq b *)
(* and a.intersects(b) is a \cap b # {}.  Latitudes are in tenths of a     *)
(* degree, confidences and weights in tenths (1.0 is 10, 0.9 is 9).        *)
(***************************************************************************)
EXTENDS Integers, Sequences, FiniteSets, TLC

VARIABLES
    suburbs_gdf,        \* the WA suburbs, as extract_wa_suburbs_from_sal returns them
    police_gdf,         \* the police districts, as load_police_districts returns them
    police_exists,      \* process_all: police_shapefile.exists()
    district_col,       \* load_police_districts: a column named *DISTRICT* was found
    correspondence_df,  \* the correspondence table and its column binding
    within_result,      \* spatial_intersection_suburbs_police: `result` after the 'within' join
    join_error,         \* the exception the try block of the spatial join ended with, or "none"
    wa_suburbs,         \* process_all: wa_suburbs after step 3
    enhanced_suburbs,   \* the records create_enhanced_suburb_records returns
    summary,            \* save_processed_data: summary['metadata']
    pc                  \* position of process_all

vars == <<suburbs_gdf, police_gdf, police_exists, district_col, correspondence_df, within_result,
          join_error, wa_suburbs, enhanced_suburbs, summary, pc>>

(***************************************************************************)
(* Bounds of the model.                                                    *)
(***************************************************************************)
MaxSuburbs == 2
MaxDistricts == 3
MaxRows == 2

\* The plane is cut into two cells, which is enough for two geometries to be
\* disjoint, to overlap without containment, to contain one another and to be
\* equal.
Cells == {1, 2}
Geoms == (SUBSET Cells) \ {{}}

\* A missing value of a pandas column (float nan), and a missing value in a
\* column of character sequences.
NaN == "float:nan"
NaNName == <<NaN>>

(***************************************************************************)
(* Python string operations, on sequences of characters.                   *)
(***************************************************************************)
LowerAlpha == <<"a","b","c","d","e","f","g","h","i","j","k","l","m",
                "n","o","p","q","r","s","t","u","v","w","x","y","z">>
UpperAlpha == <<"A","B","C","D","E","F","G","H","I","J","K","L","M",
                "N","O","P","Q","R","S","T","U","V","W","X","Y","Z">>

\* the upper-case and lower-case forms of the letters
UpperOf == [c \in {LowerAlpha[i] : i \in 1..Len(LowerAlpha)} |->
               UpperAlpha[CHOOSE i \in 1..Len(LowerAlpha) : LowerAlpha[i] = c]]
LowerOf == [c \in {UpperAlpha[i] : i \in 1..Len(UpperAlpha)} |->
               LowerAlpha[CHOOSE i \in 1..Len(UpperAlpha) : UpperAlpha[i] = c]]

UpperChar(c) == IF c \in DOMAIN UpperOf THEN UpperOf[c] ELSE c

LowerChar(c) == IF c \in DOMAIN LowerOf THEN LowerOf[c] ELSE c

\* str.upper()
StrUpper(s) == [i \in 1..Len(s) |-> UpperChar(s[i])]

\* str.lower()
StrLower(s) == [i \in 1..Len(s) |-> LowerChar(s[i])]

IsSpace(c) == c = " "

RECURSIVE LStrip(_)
LStrip(s) == IF s # <<>> /\ IsSpace(Head(s)) THEN LStrip(Tail(s)) ELSE s

RECURSIVE RStrip(_)
RStrip(s) ==
    IF s # <<>> /\ IsSpace(s[Len(s)]) THEN RStrip(SubSeq(s, 1, Len(s) - 1)) ELSE s

\* str.strip()
StrStrip(s) == RStrip(LStrip(s))

\* `p in s` for strings, and Series.str.contains(p, regex=False) on one value
StrContains(s, p) ==
    \E i \in 0..(Len(s) - Len(p)) : SubSeq(s, i + 1, i + Len(p)) = p

\* s.replace(p, ''), p not empty: every non-overlapping occurrence, left to right
RECURSIVE StrRemove(_, _)
StrRemove(s, p) ==
    IF Len(s) < Len(p) THEN s
    ELSE IF SubSeq(s, 1, Len(p)) = p
         THEN StrRemove(SubSeq(s, Len(p) + 1, Len(s)), p)
         ELSE <<Head(s)>> \o StrRemove(Tail(s), p)

RECURSIVE TakeWord(_)
TakeWord(s) ==
    IF s = <<>> \/ IsSpace(Head(s)) THEN <<>> ELSE <<Head(s)>> \o TakeWord(Tail(s))

\* s.split()[0]; the code calls it on a stripped, non-empty string only
SplitFirst(s) == TakeWord(LStrip(s))

\* str(value) of a column value that is a string or a missing value
PyStr(v) == IF v = NaN THEN "nan" ELSE v

\* truth value of a Python string
Truthy(s) == s # ""

(***************************************************************************)
(* spatial_intersection_suburbs_police                                     *)
(***************************************************************************)
\* the spatial predicates of the join, on the projected geometries
GeomPredicate(predicate, a, b) ==
    IF predicate = "within" THEN a # {} /\ a \subseteq b ELSE a \cap b # {}

\* A row of a joined frame: the index label of the suburb, which stands for
\* the suburb's own columns, and the police_district column of the right frame.
JoinRow(idx, district) == [idx |-> idx, police_district |-> district]

\* The districts one suburb is paired with, in the order `order` lists them.
PairMatches(idx, predicate, order) ==
    SelectSeq(order, LAMBDA j :
        GeomPredicate(predicate, suburbs_gdf[idx].geometry, police_gdf[j].geometry))

\* how='left': one row per (suburb, district) pair, and one row with a missing
\* police_district for a suburb no district is paired with.
LeftRows(idx, predicate, order) ==
    LET m == PairMatches(idx, predicate, order)
    IN  IF m = <<>> THEN <<JoinRow(idx, NaN)>>
        ELSE [k \in 1..Len(m) |-> JoinRow(idx, police_gdf[m[k]].police_district)]

\* gpd.sjoin(left, police_proj[['geometry','police_district']], how='left',
\* predicate=...): the rows follow the left frame; `left` lists its index labels.
RECURSIVE sjoin(_, _, _)
sjoin(left, predicate, order) ==
    IF left = <<>> THEN <<>>
    ELSE LeftRows(Head(left), predicate, order) \o sjoin(Tail(left), predicate, order)

\* The order of the districts paired with one suburb: 'within' pairs are
\* sorted by district position; 'intersects' pairs come in the order of the
\* spatial index, which is any order.
RowOrder == [j \in 1..Len(police_gdf) |-> j]
IndexOrders == Permutations(1..Len(police_gdf))

\* frame.loc[idx]: the rows under one index label
LocRows(frame, idx) == SelectSeq(frame, LAMBDA r : r.idx = idx)

\* unmapped_mask[unmapped_mask].index
UnmappedIndices(result) ==
    LET rows == SelectSeq(result, LAMBDA r : r.police_district = NaN)
    IN  [k \in 1..Len(rows) |-> rows[k].idx]

\* `if pd.notna(intersects_result.loc[idx, 'police_district'])`: under a label
\* that occurs more than once .loc gives a Series, and its truth value raises
\* ValueError.
UpdateRaises(intersects_result) ==
    \E k \in 1..Len(intersects_result) :
        Len(LocRows(intersects_result, intersects_result[k].idx)) > 1

\* mutant of UpdateResults: the loop writes to a copy, `result` keeps its rows
UpdateResults_NoWrite(result, intersects_result) == result

\* the update loop, when it does not raise
UpdateResults(result, intersects_result) ==
    [k \in 1..Len(result) |->
        LET hit == SelectSeq(intersects_result, LAMBDA r :
                       r.idx = result[k].idx /\ r.police_district # NaN)
        IN  IF hit # <<>>
            THEN [result[k] EXCEPT !.police_district = hit[1].police_district]
            ELSE result[k]]

\* the retry of the unmapped suburbs (the outcome of the try block's phase 2):
\* the updated frame, or the exception
RetryIntersects(result, unmapped_indices, order) ==
    LET intersects_result == sjoin(unmapped_indices, "intersects", order)
    IN  IF unmapped_indices = <<>> THEN [error |-> "none", result |-> result]
        ELSE IF UpdateRaises(intersects_result)
        THEN [error |-> "ValueError", result |-> <<>>]
        ELSE [error |-> "none", result |-> UpdateResults(result, intersects_result)]

\* mutant of Confidence: isna() in place of notna()
Confidence_IsNa(district) == IF district = NaN THEN 10 ELSE 0

\* result['police_district'].notna().astype(float)
Confidence(district) == IF district # NaN THEN 10 ELSE 0

\* a row of wa_suburbs: the suburb's columns and the two police columns
SuburbRow(idx, district, confidence) ==
    [idx |-> idx, sal_code |-> suburbs_gdf[idx].sal_code,
     sal_name |-> suburbs_gdf[idx].sal_name, latitude |-> suburbs_gdf[idx].latitude,
     longitude |-> suburbs_gdf[idx].longitude, area_km2 |-> suburbs_gdf[idx].area_km2,
     police_district |-> district, police_mapping_confidence |-> confidence]

WithConfidence(result) ==
    [k \in 1..Len(result) |->
        SuburbRow(result[k].idx, result[k].police_district,
                  Confidence(result[k].police_district))]

\* mutant of EmptyDistricts: the fallback leaves the district column missing
EmptyDistricts_Missing == [i \in 1..Len(suburbs_gdf) |-> SuburbRow(i, NaN, 0)]

\* suburbs_gdf with police_district = '' and police_mapping_confidence = 0.0
\* (the except branch of the join, and process_all without a police layer)
EmptyDistricts == [i \in 1..Len(suburbs_gdf) |-> SuburbRow(i, "", 0)]

\* gpd.sjoin evaluates the predicate on the geometries of `left`; on a
\* geometry that is not valid the evaluation either gives the result for the
\* geometry's cells or raises (GEOSException).
SjoinMayRaise(left) == \E k \in 1..Len(left) : ~suburbs_gdf[left[k]].is_valid

SpatialIntersection ==
    /\ pc = "loaded"
    /\ police_exists
    /\ LET result == sjoin([i \in 1..Len(suburbs_gdf) |-> i], "within", RowOrder)
           unmapped_indices == UnmappedIndices(result)
       IN  \/ \* the 'within' join raises: `result` is never bound
              /\ SjoinMayRaise([i \in 1..Len(suburbs_gdf) |-> i])
              /\ within_result' = <<>>
              /\ join_error' = "GEOSException"
              /\ wa_suburbs' = EmptyDistricts
           \/ \* the 'intersects' join of the unmapped suburbs raises
              /\ SjoinMayRaise(unmapped_indices)
              /\ within_result' = result
              /\ join_error' = "GEOSException"
              /\ wa_suburbs' = EmptyDistricts
           \/ \* the 'intersects' join runs only `if unmapped_count > 0`
              \E order \in IF unmapped_indices = <<>> THEN {RowOrder} ELSE IndexOrders :
                 LET retried == RetryIntersects(result, unmapped_indices, order)
                 IN  /\ within_result' = result
                     /\ join_error' = retried.error
                     /\ wa_suburbs' = IF retried.error = "none"
                                      THEN WithConfidence(retried.result)
                                      ELSE EmptyDistricts
    /\ pc' = "joined"
    /\ UNCHANGED <<suburbs_gdf, police_gdf, police_exists, district_col, correspondence_df,
                   enhanced_suburbs, summary>>

\* process_all, step 3 without a police shapefile
NoPoliceDistricts ==
    /\ pc = "loaded"
    /\ ~police_exists
    /\ wa_suburbs' = EmptyDistricts
    /\ pc' = "joined"
    /\ UNCHANGED <<suburbs_gdf, police_gdf, police_exists, district_col, correspondence_df,
                   within_result, join_error, enhanced_suburbs, summary>>

(***************************************************************************)
(* create_enhanced_suburb_records: SA2 mapping by name                     *)
(***************************************************************************)
clean_patterns ==
    <<<<" ","(","W","A",")">>,
      <<" ","-"," ","W","A">>,
      <<" ","L","O","C","A","L","I","T","Y">>,
      <<" ","S","U","B","U","R","B">>>>

\* correspondence_df[locality_name_col].str.upper().str.strip() == suburb_name_clean
ExactMatches(suburb_name_clean) ==
    SelectSeq(correspondence_df.rows, LAMBDA r :
        r.locality_name # NaNName /\ StrStrip(StrUpper(r.locality_name)) = suburb_name_clean)

\* the loop over clean_patterns: the first pattern found is removed, then break
CleanName(suburb_name_clean) ==
    LET found == {k \in 1..Len(clean_patterns) :
                     StrContains(suburb_name_clean, clean_patterns[k])}
    IN  IF found = {} THEN suburb_name_clean
        ELSE StrRemove(suburb_name_clean,
                       clean_patterns[CHOOSE k \in found : \A l \in found : k <= l])

\* ...str.upper().str.contains(first token of the cleaned name, na=False, regex=False)
PartialMatches(suburb_name_clean) ==
    LET cleaned == CleanName(suburb_name_clean)
        token   == IF cleaned # <<>> THEN SplitFirst(cleaned) ELSE cleaned
    IN  SelectSeq(correspondence_df.rows, LAMBDA r :
            r.locality_name # NaNName /\ StrContains(StrUpper(r.locality_name), token))

\* mutant of NameMatches: the partial match replaces the exact match
NameMatches_PartialOnly(sal_name) == PartialMatches(StrStrip(StrUpper(sal_name)))

\* name_matches after both attempts
NameMatches(sal_name) ==
    LET suburb_name_clean == StrStrip(StrUpper(sal_name))
        exact == ExactMatches(suburb_name_clean)
    IN  IF Len(exact) = 0 THEN PartialMatches(suburb_name_clean) ELSE exact

\* mutant of MatchConfidence: a single candidate scores 1.0
MatchConfidence_Certain(name_matches) == IF Len(name_matches) = 1 THEN 10 ELSE 7

\* 0.9 if len(name_matches) == 1 else 0.7
MatchConfidence(name_matches) == IF Len(name_matches) = 1 THEN 9 ELSE 7

\* the sa2_mappings list of one suburb
Sa2Mappings(sal_name) ==
    IF ~(correspondence_df.rows # <<>> /\ correspondence_df.locality_name_col)
    THEN <<>>
    ELSE LET name_matches == NameMatches(sal_name)
         IN  IF Len(name_matches) > 0
             THEN <<[sa2_code          |-> PyStr(name_matches[1].sa2_code),
                     sa2_name          |-> IF correspondence_df.sa2_name_col
                                           THEN PyStr(name_matches[1].sa2_name) ELSE "",
                     population_weight |-> 10,
                     area_weight       |-> 10,
                     match_confidence  |-> MatchConfidence(name_matches)]>>
             ELSE <<>>

(***************************************************************************)
(* classify_suburb_type and infer_economic_base                            *)
(***************************************************************************)
\* any(term in name for term in terms)
AnyTermIn(name, terms) == \E k \in 1..Len(terms) : StrContains(name, terms[k])

\* mutant of classify_suburb_type: the keyword rules come before the metro band
classify_suburb_type_KeywordsFirst(suburb) ==
    LET name == StrLower(suburb.sal_name)
        lat  == suburb.latitude
        area == suburb.area_km2
    IN  IF AnyTermIn(name, <<<<"m","i","n","e">>, <<"m","i","n","e","s">>, <<"m","i","n","i","n","g">>, <<"g","o","l","d","f","i","e","l","d">>>>)
        THEN "Mining"
        ELSE IF AnyTermIn(name, <<<<"b","e","a","c","h">>, <<"b","a","y">>, <<"i","s","l","a","n","d">>, <<"h","a","r","b","o","u","r">>>>)
        THEN "Coastal"
        ELSE IF -325 < lat /\ lat < -314
        THEN (IF area < 10 THEN "Urban" ELSE "Suburban")
        ELSE IF lat < -260 THEN "Remote"
        ELSE IF area > 1000 THEN "Rural"
        ELSE "Regional Town"

classify_suburb_type(suburb) ==
    LET name == StrLower(suburb.sal_name)
        lat  == suburb.latitude
        area == suburb.area_km2
    IN  IF -325 < lat /\ lat < -314
        THEN (IF area < 10 THEN "Urban" ELSE "Suburban")
        ELSE IF AnyTermIn(name, <<<<"m","i","n","e">>, <<"m","i","n","e","s">>, <<"m","i","n","i","n","g">>, <<"g","o","l","d","f","i","e","l","d">>>>)
        THEN "Mining"
        ELSE IF AnyTermIn(name, <<<<"b","e","a","c","h">>, <<"b","a","y">>, <<"i","s","l","a","n","d">>, <<"h","a","r","b","o","u","r">>>>)
        THEN "Coastal"
        ELSE IF lat < -260 THEN "Remote"
        ELSE IF area > 1000 THEN "Rural"
        ELSE "Regional Town"

\* mutant of EconomicBaseTags: the mining rule lacks the keyword 'gold'
EconomicBaseTags_NoGold(suburb) ==
    LET name == StrLower(suburb.sal_name)
        lat  == suburb.latitude
    IN  (IF AnyTermIn(name, <<<<"m","i","n","e">>, <<"m","i","n","i","n","g">>, <<"i","r","o","n">>>>)
         THEN <<"Mining">> ELSE <<>>)
     \o (IF AnyTermIn(name, <<<<"p","o","r","t">>, <<"h","a","r","b","o","u","r">>>>)
         THEN <<"Port Services">> ELSE <<>>)
     \o (IF AnyTermIn(name, <<<<"b","e","a","c","h">>, <<"b","a","y">>, <<"i","s","l","a","n","d">>>>)
         THEN <<"Tourism">> ELSE <<>>)
     \o (IF StrContains(name, <<"p","e","r","t","h">>) \/ (-325 < lat /\ lat < -314)
         THEN <<"Services", "Finance">> ELSE <<>>)
     \o (IF suburb.area_km2 > 500 /\ lat > -320
         THEN <<"Agriculture">> ELSE <<>>)

\* the list `base` after the five rules
EconomicBaseTags(suburb) ==
    LET name == StrLower(suburb.sal_name)
        lat  == suburb.latitude
    IN  (IF AnyTermIn(name, <<<<"m","i","n","e">>, <<"m","i","n","i","n","g">>, <<"g","o","l","d">>, <<"i","r","o","n">>>>)
         THEN <<"Mining">> ELSE <<>>)
     \o (IF AnyTermIn(name, <<<<"p","o","r","t">>, <<"h","a","r","b","o","u","r">>>>)
         THEN <<"Port Services">> ELSE <<>>)
     \o (IF AnyTermIn(name, <<<<"b","e","a","c","h">>, <<"b","a","y">>, <<"i","s","l","a","n","d">>>>)
         THEN <<"Tourism">> ELSE <<>>)
     \o (IF StrContains(name, <<"p","e","r","t","h">>) \/ (-325 < lat /\ lat < -314)
         THEN <<"Services", "Finance">> ELSE <<>>)
     \o (IF suburb.area_km2 > 500 /\ lat > -320
         THEN <<"Agriculture">> ELSE <<>>)

\* mutant of infer_economic_base: `return base`, without the default
infer_economic_base_NoDefault(suburb) == EconomicBaseTags(suburb)

\* return base or ['Mixed Economy']
infer_economic_base(suburb) ==
    LET base == EconomicBaseTags(suburb)
    IN  IF base # <<>> THEN base ELSE <<"Mixed Economy">>

(***************************************************************************)
(* create_enhanced_suburb_records: the records                             *)
(***************************************************************************)
\* mutant of EnhancedRecord: the SA2 mapping is kept only for a suburb that
\* has a police district
EnhancedRecord_RegionNeedsDistrict(suburb) ==
    [sal_code                  |-> suburb.sal_code,
     sal_name                  |-> suburb.sal_name,
     state                     |-> "WA",
     latitude                  |-> suburb.latitude,
     longitude                 |-> suburb.longitude,
     area_km2                  |-> suburb.area_km2,
     sa2_mappings              |-> IF suburb.police_mapping_confidence = 10
                                   THEN Sa2Mappings(suburb.sal_name) ELSE <<>>,
     police_district           |-> PyStr(suburb.police_district),
     police_mapping_confidence |-> suburb.police_mapping_confidence,
     classification_type       |-> classify_suburb_type(suburb),
     economic_base             |-> infer_economic_base(suburb),
     last_updated              |-> "2025-09-15T00:00:00.000Z",
     data_source               |-> "ABS_SAL_2021_FINAL"]

EnhancedRecord(suburb) ==
    [sal_code                  |-> suburb.sal_code,
     sal_name                  |-> suburb.sal_name,
     state                     |-> "WA",
     latitude                  |-> suburb.latitude,
     longitude                 |-> suburb.longitude,
     area_km2                  |-> suburb.area_km2,
     sa2_mappings              |-> Sa2Mappings(suburb.sal_name),
     police_district           |-> PyStr(suburb.police_district),
     police_mapping_confidence |-> suburb.police_mapping_confidence,
     classification_type       |-> classify_suburb_type(suburb),
     economic_base             |-> infer_economic_base(suburb),
     last_updated              |-> "2025-09-15T00:00:00.000Z",
     data_source               |-> "ABS_SAL_2021_FINAL"]

CreateEnhancedSuburbRecords ==
    /\ pc = "joined"
    /\ enhanced_suburbs' = [k \in 1..Len(wa_suburbs) |-> EnhancedRecord(wa_suburbs[k])]
    /\ pc' = "assembled"
    /\ UNCHANGED <<suburbs_gdf, police_gdf, police_exists, district_col, correspondence_df,
                   within_result, join_error, wa_suburbs, summary>>

(***************************************************************************)
(* save_processed_data: the coverage block                                 *)
(***************************************************************************)
\* sum(1 for s in enhanced_suburbs if s['sa2_mappings'])
Sa2Mapped(records) ==
    Cardinality({k \in 1..Len(records) : records[k].sa2_mappings # <<>>})

\* sum(1 for s in enhanced_suburbs if s['police_district'])
PoliceMapped(records) ==
    Cardinality({k \in 1..Len(records) : Truthy(records[k].police_district)})

\* count / len(enhanced_suburbs) * 100, as the exact quotient num / den
Percentage(count, total) == [num |-> count * 100, den |-> total]

SaveProcessedData ==
    /\ pc = "assembled"
    /\ summary' =
          [total_suburbs |-> Len(enhanced_suburbs),
           coverage |->
              [sa2_mapped        |-> Sa2Mapped(enhanced_suburbs),
               police_mapped     |-> PoliceMapped(enhanced_suburbs),
               sa2_percentage    |-> Percentage(Sa2Mapped(enhanced_suburbs),
                                                Len(enhanced_suburbs)),
               police_percentage |-> Percentage(PoliceMapped(enhanced_suburbs),
                                                Len(enhanced_suburbs))]]
    /\ pc' = "saved"
    /\ UNCHANGED <<suburbs_gdf, police_gdf, police_exists, district_col, correspondence_df,
                   within_result, join_error, wa_suburbs, enhanced_suburbs>>

(***************************************************************************)
(* Inputs.  Families of initial states: the geometries vary (the spatial   *)
(* join), with or without malformed suburb polygons, the names and the     *)
(* correspondence table vary (the SA2                                      *)
(* matching), or one suburb's name, latitude and area vary (the            *)
(* classifiers).  process_all stops before step 2 when no suburb is        *)
(* loaded, so there is at least one suburb.                                *)
(***************************************************************************)
SalCodes == <<"50001", "50002", "50003", "50004">>
DistrictNames == <<"Perth", "Mirrabooka", "Kimberley", "Pilbara">>
Sa2Codes == <<"501011001", "501011002", "501011003", "501011004">>
Sa2Names == <<"Region A", "Region B", "Region C", "Region D">>

Suburb(i, name, lat, area, geom) ==
    [sal_code |-> SalCodes[i], sal_name |-> name, state |-> "WA",
     latitude |-> lat, longitude |-> 1222, area_km2 |-> area, geometry |-> geom,
     is_valid |-> TRUE]

\* a suburb whose polygon is malformed (geometry.is_valid is False)
Malformed(suburb) == [suburb EXCEPT !.is_valid = FALSE]

District(j, geom) == [police_district |-> DistrictNames[j], geometry |-> geom]

\* a district of a layer without a district column:
\* police_gdf['police_district'] = 'Unknown'
UnknownDistrict(geom) == [police_district |-> "Unknown", geometry |-> geom]

Table(names) ==
    [rows |-> [k \in 1..Len(names) |->
                  [locality_name |-> names[k], sa2_code |-> Sa2Codes[k],
                   sa2_name |-> Sa2Names[k]]],
     locality_name_col |-> TRUE,
     sa2_name_col |-> TRUE]

\* pd.DataFrame(): no correspondence file, or one without the required columns
NoTable == [rows |-> <<>>, locality_name_col |-> FALSE, sa2_name_col |-> FALSE]

Ord == <<"O","r","d">>

\* suburb names of the SA2 matching family
MatchNames ==
    {<<"B","a","y">>,
     <<"b","a","y"," ">>,
     <<"B","a","y"," ","(","W","A",")">>,
     <<"B","i","g"," ","B","a","y">>,
     <<"O","r","d">>}

\* locality names of the correspondence table
LocalityNames ==
    {<<"B","A","Y">>,
     <<" ","B","a","y">>,
     <<"B","a","y","v","i","e","w">>,
     <<"B","i","g"," ","B","e","n">>} \cup {NaNName}

\* suburb names of the classifier family
ClassifyNames ==
    {<<"B","r","o","o","m","e">>,
     <<"M","i","n","i","n","g"," ","B","a","y">>,
     <<"M","i","n","e","s","i","t","e">>,
     <<"G","o","l","d","f","i","e","l","d">>,
     <<"G","o","l","d","e","n">>,
     <<"I","r","o","n">>,
     <<"P","o","r","t">>,
     <<"H","a","r","b","o","u","r">>,
     <<"B","e","a","c","h">>,
     <<"I","s","l","a","n","d">>,
     <<"P","e","r","t","h">>,
     <<"M","I","N","E">>,
     <<"B","i","g"," ","B","a","y">>}

ClassifyLatitudes == {-330, -325, -324, -320, -319, -315, -314, -313, -261, -260, -259}
ClassifyAreas == {9, 10, 11, 500, 501, 1000, 1001}

InitJoin ==
    /\ \E n \in 1..MaxSuburbs : \E g \in [1..n -> Geoms] :
          suburbs_gdf = [i \in 1..n |-> Suburb(i, Ord, -180, 52, g[i])]
    /\ \/ /\ police_exists = TRUE
          /\ \E m \in 1..MaxDistricts : \E g \in [1..m -> Geoms] :
                police_gdf = [j \in 1..m |-> District(j, g[j])]
       \/ /\ police_exists = FALSE
          /\ police_gdf = <<>>
    /\ district_col = police_exists
    /\ correspondence_df \in
          IF police_exists THEN {Table(<<StrUpper(Ord)>>)}
          ELSE {Table(<<StrUpper(Ord)>>), NoTable}

\* the join family with a police layer of one or two districts that has no
\* district column
InitNoDistrictColumn ==
    /\ \E n \in 1..MaxSuburbs : \E g \in [1..n -> Geoms] :
          suburbs_gdf = [i \in 1..n |-> Suburb(i, Ord, -180, 52, g[i])]
    /\ police_exists = TRUE
    /\ district_col = FALSE
    /\ \E g, h \in Geoms :
          police_gdf \in {<<UnknownDistrict(g)>>, <<UnknownDistrict(g), UnknownDistrict(h)>>}
    /\ correspondence_df \in {Table(<<StrUpper(Ord)>>), NoTable}

\* the join family with at least one malformed suburb polygon, and a layer of
\* one or two districts
InitMalformed ==
    /\ \E n \in 1..MaxSuburbs : \E g \in [1..n -> Geoms] :
          \E bad \in (SUBSET (1..n)) \ {{}} :
             suburbs_gdf = [i \in 1..n |->
                               IF i \in bad THEN Malformed(Suburb(i, Ord, -180, 52, g[i]))
                               ELSE Suburb(i, Ord, -180, 52, g[i])]
    /\ police_exists = TRUE
    /\ district_col = TRUE
    /\ \E g, h \in Geoms :
          police_gdf \in {<<District(1, g)>>, <<District(1, g), District(2, h)>>}
    /\ correspondence_df = Table(<<StrUpper(Ord)>>)

InitMatch ==
    /\ \E n \in 1..MaxSuburbs : \E name \in [1..n -> MatchNames] :
          suburbs_gdf = [i \in 1..n |-> Suburb(i, name[i], -180, 52, {1})]
    /\ police_exists = TRUE
    /\ district_col = TRUE
    /\ police_gdf = <<District(1, {1})>>
    /\ \/ correspondence_df = NoTable
       \/ \E m \in 1..MaxRows : \E names \in [1..m -> LocalityNames] :
             correspondence_df = Table(names)

InitClassify ==
    /\ \E name \in ClassifyNames, lat \in ClassifyLatitudes, area \in ClassifyAreas :
          suburbs_gdf = <<Suburb(1, name, lat, area, {1})>>
    /\ police_exists = TRUE
    /\ district_col = TRUE
    /\ police_gdf = <<District(1, {1})>>
    /\ correspondence_df = Table(<<StrUpper(Ord)>>)

Init ==
    /\ InitJoin \/ InitMalformed \/ InitNoDistrictColumn \/ InitMatch \/ InitClassify
    /\ within_result = <<>>
    /\ join_error = "none"
    /\ wa_suburbs = <<>>
    /\ enhanced_suburbs = <<>>
    /\ summary = [total_suburbs |-> 0]
    /\ pc = "loaded"

Next ==
    \/ SpatialIntersection
    \/ NoPoliceDistricts
    \/ CreateEnhancedSuburbRecords
    \/ SaveProcessedData

Spec == Init /\ [][Next]_vars

(***************************************************************************)
(* Properties.  The geometric facts and the rules are restated here from   *)
(* the inputs, independently of the operators above.                       *)
(***************************************************************************)
SetMin(S) == CHOOSE x \in S : \A y \in S : x <= y

Joined == pc \in {"joined", "assembled", "saved"}
Assembled == pc \in {"assembled", "saved"}

\* the districts that contain, and that intersect, suburb i
Containing(i) ==
    {j \in 1..Len(police_gdf) : suburbs_gdf[i].geometry \subseteq police_gdf[j].geometry}
Intersecting(i) ==
    {j \in 1..Len(police_gdf) : suburbs_gdf[i].geometry \cap police_gdf[j].geometry # {}}

\* the values of police_district the joined frame holds for suburb i
Assigned(i) ==
    {wa_suburbs[k].police_district : k \in {l \in 1..Len(wa_suburbs) : wa_suburbs[l].idx = i}}

\* the district names phase 1 gave suburb i
WithinAssigned(i) ==
    {within_result[k].police_district :
        k \in {l \in 1..Len(within_result) :
                  within_result[l].idx = i /\ within_result[l].police_district # NaN}}

\* C1: the pipeline emits exactly one record per input suburb, in input
\* order, each sal_code once, also when a suburb is paired with several
\* districts.
C1_OneRecordPerSuburb ==
    Assembled =>
        /\ Len(enhanced_suburbs) = Len(suburbs_gdf)
        /\ \A i \in 1..Len(suburbs_gdf) :
              enhanced_suburbs[i].sal_code = suburbs_gdf[i].sal_code

\* C2: when several districts contain a suburb (phase 1), or none contains it
\* and several intersect it (phase 2), the suburb is assigned the name of the
\* first of them in the district collection's order.
C2_FirstMatchWins ==
    (Joined /\ police_exists) =>
        \A i \in 1..Len(suburbs_gdf) :
            /\ Containing(i) # {} =>
                  Assigned(i) = {police_gdf[SetMin(Containing(i))].police_district}
            /\ (Containing(i) = {} /\ Intersecting(i) # {}) =>
                  Assigned(i) = {police_gdf[SetMin(Intersecting(i))].police_district}

\* C3: a suburb some district contains is assigned a district that contains
\* it, whatever intersects it earlier in the order, and every assignment of
\* phase 1 is still the suburb's assignment after phase 2.
C3_TwoPhaseOrdering ==
    (Joined /\ police_exists) =>
        \A i \in 1..Len(suburbs_gdf) :
            /\ Containing(i) # {} =>
                  /\ Assigned(i) # {}
                  /\ Assigned(i) \subseteq
                        {police_gdf[j].police_district : j \in Containing(i)}
            /\ WithinAssigned(i) # {} => Assigned(i) = WithinAssigned(i)

\* C4: after district assignment every row's confidence is 0.0 or 1.0, and it
\* is 1.0 exactly when the row holds a district name; a suburb no district
\* intersects has no district name and 0.0; and when the join ended without
\* an exception, the suburbs with a district name are exactly those some
\* district contains or intersects, whichever phase found it.
C4_ConfidenceIffAssigned ==
    (Joined /\ police_exists) =>
        \A k \in 1..Len(wa_suburbs) :
            LET i == wa_suburbs[k].idx
                named == wa_suburbs[k].police_district \notin {NaN, ""}
            IN  /\ wa_suburbs[k].police_mapping_confidence \in {0, 10}
                /\ wa_suburbs[k].police_mapping_confidence = 10 <=> named
                /\ Intersecting(i) = {} =>
                      /\ ~named
                      /\ wa_suburbs[k].police_mapping_confidence = 0
                /\ join_error = "none" =>
                      /\ named <=> Intersecting(i) # {}
                      /\ named => wa_suburbs[k].police_district \in
                            {police_gdf[j].police_district : j \in Intersecting(i)}

\* C4 witness: one suburb found by phase 2 only with confidence 1.0, another
\* found by neither phase with a missing district and confidence 0.0.
C4_Witness ==
    /\ pc = "joined"
    /\ police_exists
    /\ \E k, l \in 1..Len(wa_suburbs) :
          /\ WithinAssigned(wa_suburbs[k].idx) = {}
          /\ wa_suburbs[k].police_mapping_confidence = 10
          /\ wa_suburbs[l].police_district = NaN
          /\ wa_suburbs[l].police_mapping_confidence = 0

\* the rows of the correspondence table whose normalized locality name equals
\* the normalized suburb name
ExactCandidates(sal_name) ==
    {k \in 1..Len(correspondence_df.rows) :
        /\ correspondence_df.rows[k].locality_name # NaNName
        /\ StrStrip(StrUpper(correspondence_df.rows[k].locality_name))
              = StrStrip(StrUpper(sal_name))}

\* the first whitespace-delimited token of a string that starts with a token
FirstToken(s) ==
    LET spaces == {p \in 1..Len(s) : s[p] = " "}
    IN  IF spaces = {} THEN s ELSE SubSeq(s, 1, SetMin(spaces) - 1)

\* the rows whose uppercased locality name contains the first token of the
\* cleaned suburb name
FuzzyCandidates(sal_name) ==
    {k \in 1..Len(correspondence_df.rows) :
        /\ correspondence_df.rows[k].locality_name # NaNName
        /\ StrContains(StrUpper(correspondence_df.rows[k].locality_name),
                       FirstToken(CleanName(StrStrip(StrUpper(sal_name)))))}

TableBound == correspondence_df.rows # <<>> /\ correspondence_df.locality_name_col

\* C5: a region mapping has match_confidence 0.9 if exactly one exact-match
\* candidate existed, and 0.7 if it came from the fuzzy phase or from more
\* than one candidate.
C5_ConfidenceByPhase ==
    Assembled =>
        \A k \in 1..Len(enhanced_suburbs) :
            enhanced_suburbs[k].sa2_mappings # <<>> =>
                enhanced_suburbs[k].sa2_mappings[1].match_confidence =
                    IF Cardinality(ExactCandidates(enhanced_suburbs[k].sal_name)) = 1
                    THEN 9 ELSE 7

\* C6: the mapping is taken from the first exact candidate in table order if
\* there is one; otherwise from the first fuzzy candidate in table order; and
\* a suburb with no candidate of either kind gets an empty mapping list.
C6_ExactThenFuzzy ==
    (Assembled /\ TableBound) =>
        \A k \in 1..Len(enhanced_suburbs) :
            LET name  == enhanced_suburbs[k].sal_name
                exact == ExactCandidates(name)
                fuzzy == FuzzyCandidates(name)
                maps  == enhanced_suburbs[k].sa2_mappings
            IN  /\ Len(maps) <= 1
                /\ exact # {} =>
                      /\ Len(maps) = 1
                      /\ maps[1].sa2_code = correspondence_df.rows[SetMin(exact)].sa2_code
                      /\ maps[1].sa2_name = correspondence_df.rows[SetMin(exact)].sa2_name
                /\ (exact = {} /\ fuzzy # {}) =>
                      /\ Len(maps) = 1
                      /\ maps[1].sa2_code = correspondence_df.rows[SetMin(fuzzy)].sa2_code
                      /\ maps[1].sa2_name = correspondence_df.rows[SetMin(fuzzy)].sa2_name
                /\ (exact = {} /\ fuzzy = {}) => maps = <<>>

\* C6 witness: one record mapped by an exact match that is not the first row
\* containing its token, and one record mapped by the fuzzy phase.
C6_Witness ==
    /\ pc = "assembled"
    /\ TableBound
    /\ \E k, l \in 1..Len(enhanced_suburbs) :
          /\ ExactCandidates(enhanced_suburbs[k].sal_name) # {}
          /\ SetMin(ExactCandidates(enhanced_suburbs[k].sal_name))
                > SetMin(FuzzyCandidates(enhanced_suburbs[k].sal_name))
          /\ enhanced_suburbs[k].sa2_mappings # <<>>
          /\ ExactCandidates(enhanced_suburbs[l].sal_name) = {}
          /\ FuzzyCandidates(enhanced_suburbs[l].sal_name) # {}
          /\ enhanced_suburbs[l].sa2_mappings # <<>>

\* the keyword sets of the rules, and the metropolitan latitude band
MiningClassTerms ==
    {<<"m","i","n","e">>,
     <<"m","i","n","e","s">>,
     <<"m","i","n","i","n","g">>,
     <<"g","o","l","d","f","i","e","l","d">>}
CoastalClassTerms ==
    {<<"b","e","a","c","h">>,
     <<"b","a","y">>,
     <<"i","s","l","a","n","d">>,
     <<"h","a","r","b","o","u","r">>}
MiningBaseTerms ==
    {<<"m","i","n","e">>,
     <<"m","i","n","i","n","g">>,
     <<"g","o","l","d">>,
     <<"i","r","o","n">>}
PortTerms ==
    {<<"p","o","r","t">>,
     <<"h","a","r","b","o","u","r">>}
TourismTerms ==
    {<<"b","e","a","c","h">>,
     <<"b","a","y">>,
     <<"i","s","l","a","n","d">>}
PerthTerm == <<"p","e","r","t","h">>

NameHas(sal_name, terms) == \E t \in terms : StrContains(StrLower(sal_name), t)
InMetroBand(lat) == lat > -325 /\ lat < -314

\* C7: classification_type is the first matching rule of the chain: metro
\* band (Urban below 10 km2, else Suburban), mining keyword, coastal keyword,
\* latitude below -26 (Remote), area above 1000 (Rural), else Regional Town;
\* the boundary values fall on the non-matching side of each comparison.
C7_ClassifyRuleChain ==
    Assembled =>
        \A k \in 1..Len(enhanced_suburbs) :
            LET r       == enhanced_suburbs[k]
                band    == InMetroBand(r.latitude)
                mining  == NameHas(r.sal_name, MiningClassTerms)
                coastal == NameHas(r.sal_name, CoastalClassTerms)
                type    == r.classification_type
            IN  /\ type \in {"Urban", "Suburban", "Mining", "Coastal", "Remote",
                             "Rural", "Regional Town"}
                /\ (band /\ r.area_km2 < 10) => type = "Urban"
                /\ (band /\ r.area_km2 >= 10) => type = "Suburban"
                /\ (~band /\ mining) => type = "Mining"
                /\ (~band /\ ~mining /\ coastal) => type = "Coastal"
                /\ (~band /\ ~mining /\ ~coastal /\ r.latitude < -260) => type = "Remote"
                /\ (~band /\ ~mining /\ ~coastal /\ r.latitude >= -260
                       /\ r.area_km2 > 1000) => type = "Rural"
                /\ (~band /\ ~mining /\ ~coastal /\ r.latitude >= -260
                       /\ r.area_km2 <= 1000) => type = "Regional Town"
                /\ r.latitude \in {-325, -314} => type \notin {"Urban", "Suburban"}
                /\ r.area_km2 = 10 => type # "Urban"
                /\ r.latitude = -260 => type # "Remote"
                /\ r.area_km2 = 1000 => type # "Rural"

\* C7 witness: a small suburb in the metro band whose name holds a mining and
\* a coastal keyword is Urban.
C7_Witness ==
    /\ pc = "assembled"
    /\ \E k \in 1..Len(enhanced_suburbs) :
          /\ InMetroBand(enhanced_suburbs[k].latitude)
          /\ NameHas(enhanced_suburbs[k].sal_name, MiningClassTerms)
          /\ NameHas(enhanced_suburbs[k].sal_name, CoastalClassTerms)
          /\ enhanced_suburbs[k].area_km2 = 9
          /\ enhanced_suburbs[k].classification_type = "Urban"

\* the economic-base rules that fire for a suburb
BaseRulesFired(sal_name, lat, area) ==
    {rule \in {"Mining", "Port Services", "Tourism", "Services+Finance", "Agriculture"} :
        \/ rule = "Mining" /\ NameHas(sal_name, MiningBaseTerms)
        \/ rule = "Port Services" /\ NameHas(sal_name, PortTerms)
        \/ rule = "Tourism" /\ NameHas(sal_name, TourismTerms)
        \/ rule = "Services+Finance"
              /\ (NameHas(sal_name, {PerthTerm}) \/ InMetroBand(lat))
        \/ rule = "Agriculture" /\ area > 500 /\ lat > -320}

SeqRange(q) == {q[n] : n \in 1..Len(q)}

\* C8: economic_base is never empty, it is exactly <<Mixed Economy>> if and
\* only if none of the five rules fires, and Mixed Economy never comes with
\* another tag.
C8_EconomicBaseDefault ==
    Assembled =>
        \A k \in 1..Len(enhanced_suburbs) :
            LET r     == enhanced_suburbs[k]
                fired == BaseRulesFired(r.sal_name, r.latitude, r.area_km2)
            IN  /\ r.economic_base # <<>>
                /\ r.economic_base = <<"Mixed Economy">> <=> fired = {}
                /\ "Mixed Economy" \in SeqRange(r.economic_base) =>
                      Len(r.economic_base) = 1

\* C8 witness: a record with the default tag alone.
C8_Witness ==
    /\ pc = "assembled"
    /\ \E k \in 1..Len(enhanced_suburbs) :
          /\ enhanced_suburbs[k].economic_base = <<"Mixed Economy">>
          /\ enhanced_suburbs[k].area_km2 = 500
          /\ enhanced_suburbs[k].latitude = -325

\* C9: for a non-empty record collection the reported counts and percentages
\* are those of the suburbs with an assignment, for the region mapping and
\* for the district mapping; a record with confidence 0.0 is not counted.
C9_CoverageCounts ==
    (pc = "saved" /\ Len(enhanced_suburbs) > 0) =>
        LET total  == Len(enhanced_suburbs)
            police == Cardinality({k \in 1..total :
                          enhanced_suburbs[k].police_mapping_confidence = 10})
            sa2    == Cardinality({k \in 1..total :
                          enhanced_suburbs[k].sa2_mappings # <<>>})
        IN  /\ summary.total_suburbs = total
            /\ summary.coverage.police_mapped = police
            /\ summary.coverage.sa2_mapped = sa2
            /\ summary.coverage.police_percentage = [num |-> police * 100, den |-> total]
            /\ summary.coverage.sa2_percentage = [num |-> sa2 * 100, den |-> total]

C11_FallbackOnError ==
    (Joined /\ police_exists /\ join_error # "none") =>
        /\ Len(wa_suburbs) = Len(suburbs_gdf)
        /\ \A i \in 1..Len(suburbs_gdf) :
              /\ wa_suburbs[i].sal_code = suburbs_gdf[i].sal_code
              /\ wa_suburbs[i].police_district = ""
              /\ wa_suburbs[i].police_mapping_confidence = 0
        /\ Assembled =>
              /\ Len(enhanced_suburbs) = Len(suburbs_gdf)
              /\ \A i \in 1..Len(suburbs_gdf) :
                    /\ enhanced_suburbs[i].sal_code = suburbs_gdf[i].sal_code
                    /\ enhanced_suburbs[i].police_district = ""
                    /\ enhanced_suburbs[i].police_mapping_confidence = 0

\* C11 witness: the 'intersects' join raised on a malformed polygon after
\* phase 1 had matched another suburb, and the records are assembled.
C11_Witness ==
    /\ pc = "assembled"
    /\ join_error = "GEOSException"
    /\ Len(enhanced_suburbs) = 2
    /\ \E i \in 1..Len(suburbs_gdf) : WithinAssigned(i) # {}

\* C12: when the spatial predicate raises on the one malformed suburb polygon
\* of the collection, that suburb alone is left without a district and with
\* confidence 0.0; every well-formed suburb keeps the district it gets without
\* the malformed suburb: the one district that contains it, or else the one
\* district that intersects it.
C12_ErrorIsolatedPerSuburb ==
    (Joined /\ police_exists /\ join_error = "GEOSException"
        /\ Cardinality({i \in 1..Len(suburbs_gdf) : ~suburbs_gdf[i].is_valid}) = 1) =>
        \A i \in 1..Len(suburbs_gdf) :
            /\ ~suburbs_gdf[i].is_valid =>
                  \A k \in 1..Len(wa_suburbs) :
                     wa_suburbs[k].idx = i =>
                        /\ wa_suburbs[k].police_district \in {NaN, ""}
                        /\ wa_suburbs[k].police_mapping_confidence = 0
            /\ (suburbs_gdf[i].is_valid /\ Cardinality(Containing(i)) = 1) =>
                  Assigned(i) = {police_gdf[SetMin(Containing(i))].police_district}
            /\ (suburbs_gdf[i].is_valid /\ Containing(i) = {}
                   /\ Cardinality(Intersecting(i)) = 1) =>
                  Assigned(i) = {police_gdf[SetMin(Intersecting(i))].police_district}

\* C13: when the police layer has no district-name column, every suburb
\* ends with no district and confidence 0.0; when the correspondence table
\* lacks its locality-name or region-code column, every record has an empty
\* region mapping; and in both cases one record is emitted per suburb.
C13_MissingColumnSkipsStage ==
    /\ (Joined /\ police_exists /\ ~district_col) =>
          \A k \in 1..Len(wa_suburbs) :
             /\ wa_suburbs[k].police_district \in {NaN, ""}
             /\ wa_suburbs[k].police_mapping_confidence = 0
    /\ (Assembled /\ correspondence_df = NoTable) =>
          \A k \in 1..Len(enhanced_suburbs) : enhanced_suburbs[k].sa2_mappings = <<>>
    /\ (Assembled /\ ((police_exists /\ ~district_col) \/ correspondence_df = NoTable)) =>
          Len(enhanced_suburbs) = Len(suburbs_gdf)

\* C14: the record of a suburb with no district (none found by either
\* phase, the join fell back, or no police layer) and no region match has the
\* suburb's base fields, a classification and a non-empty economic base, an
\* empty police_district, confidence 0.0 and an empty sa2_mappings list.
C14_RecordWithoutAssignments ==
    Assembled =>
        \A k \in 1..Len(enhanced_suburbs) :
            LET suburb == wa_suburbs[k]
                r      == enhanced_suburbs[k]
                no_region == \/ ~TableBound
                             \/ /\ ExactCandidates(suburb.sal_name) = {}
                                /\ FuzzyCandidates(suburb.sal_name) = {}
            IN  (suburb.police_district \in {NaN, ""} /\ no_region) =>
                    /\ r.sal_code = suburbs_gdf[suburb.idx].sal_code
                    /\ r.sal_name = suburbs_gdf[suburb.idx].sal_name
                    /\ r.state = "WA"
                    /\ r.latitude = suburbs_gdf[suburb.idx].latitude
                    /\ r.longitude = suburbs_gdf[suburb.idx].longitude
                    /\ r.area_km2 = suburbs_gdf[suburb.idx].area_km2
                    /\ r.classification_type \in
                          {"Urban", "Suburban", "Mining", "Coastal", "Remote", "Rural",
                           "Regional Town"}
                    /\ r.economic_base # <<>>
                    /\ r.police_district = ""
                    /\ r.police_mapping_confidence = 0
                    /\ r.sa2_mappings = <<>>

\* C15: every record carries no region mapping or exactly one; a mapping's
\* match_confidence is 0.7 or 0.9 and its population_weight and area_weight
\* are 1.0, for every suburb name and every correspondence table.
C15_RegionConfidenceValues ==
    Assembled =>
        \A k \in 1..Len(enhanced_suburbs) :
            LET maps == enhanced_suburbs[k].sa2_mappings
            IN  /\ Len(maps) \in {0, 1}
                /\ \A n \in 1..Len(maps) :
                      /\ maps[n].match_confidence \in {7, 9}
                      /\ maps[n].population_weight = 10
                      /\ maps[n].area_weight = 10

\* C15 witness: of two records, one is mapped with 0.9 and the other with 0.7.
C15_Witness ==
    /\ pc = "assembled"
    /\ \E k, l \in 1..Len(enhanced_suburbs) :
          /\ enhanced_suburbs[k].sa2_mappings # <<>>
          /\ enhanced_suburbs[k].sa2_mappings[1].match_confidence = 9
          /\ enhanced_suburbs[l].sa2_mappings # <<>>
          /\ enhanced_suburbs[l].sa2_mappings[1].match_confidence = 7

\* the region mapping of a suburb name, from the name and the table alone
RegionPass(sal_name) ==
    LET exact == ExactCandidates(sal_name)
        cands == IF exact # {} THEN exact ELSE FuzzyCandidates(sal_name)
    IN  IF ~TableBound \/ cands = {} THEN <<>>
        ELSE <<[sa2_code          |-> correspondence_df.rows[SetMin(cands)].sa2_code,
                sa2_name          |-> correspondence_df.rows[SetMin(cands)].sa2_name,
                population_weight |-> 10,
                area_weight       |-> 10,
                match_confidence  |-> IF Cardinality(cands) = 1 THEN 9 ELSE 7]>>

\* the classification of a suburb, from its name, latitude and area alone
ClassPass(sal_name, lat, area) ==
    CASE InMetroBand(lat) /\ area < 10 -> "Urban"
      [] InMetroBand(lat) /\ area >= 10 -> "Suburban"
      [] ~InMetroBand(lat) /\ NameHas(sal_name, MiningClassTerms) -> "Mining"
      [] ~InMetroBand(lat) /\ ~NameHas(sal_name, MiningClassTerms)
            /\ NameHas(sal_name, CoastalClassTerms) -> "Coastal"
      [] OTHER -> IF lat < -260 THEN "Remote"
                  ELSE IF area > 1000 THEN "Rural" ELSE "Regional Town"

\* the economic-base tags of a suburb, from its name, latitude and area alone
BasePass(sal_name, lat, area) ==
    LET fired == BaseRulesFired(sal_name, lat, area)
    IN  IF fired = {} THEN {"Mixed Economy"}
        ELSE (fired \ {"Services+Finance"})
                \cup (IF "Services+Finance" \in fired THEN {"Services", "Finance"} ELSE {})

\* C16: the region mapping, classification and economic base of every record
\* are those of the input suburb's own name, latitude and area and of the
\* correspondence table, whatever district assignment did (a match in either
\* phase, none, a fallback, no police layer) and whatever the other suburbs
\* are; the district fields of the record are those of its joined row.  The
\* records are thus the join of two passes that write disjoint fields.
C16_StageIndependence ==
    Assembled =>
        /\ Len(enhanced_suburbs) = Len(wa_suburbs)
        /\ \A k \in 1..Len(enhanced_suburbs) :
              LET r      == enhanced_suburbs[k]
                  suburb == suburbs_gdf[wa_suburbs[k].idx]
              IN  /\ r.sal_code = suburb.sal_code
                  /\ r.sa2_mappings = RegionPass(suburb.sal_name)
                  /\ r.classification_type =
                        ClassPass(suburb.sal_name, suburb.latitude, suburb.area_km2)
                  /\ SeqRange(r.economic_base) =
                        BasePass(suburb.sal_name, suburb.latitude, suburb.area_km2)
                  /\ r.police_district =
                        IF wa_suburbs[k].police_district = NaN THEN "nan"
                        ELSE wa_suburbs[k].police_district
                  /\ r.police_mapping_confidence =
                        wa_suburbs[k].police_mapping_confidence

\* C16 witness: two suburbs of the same name, one with a district and one
\* without, carry the same region mapping.
C16_Witness ==
    /\ pc = "assembled"
    /\ \E k, l \in 1..Len(enhanced_suburbs) :
          /\ enhanced_suburbs[k].police_mapping_confidence = 10
          /\ enhanced_suburbs[l].police_mapping_confidence = 0
          /\ enhanced_suburbs[k].sal_name = enhanced_suburbs[l].sal_name
          /\ enhanced_suburbs[k].sa2_mappings # <<>>
          /\ enhanced_suburbs[k].sa2_mappings = enhanced_suburbs[l].sa2_mappings

\* C17: a record classified Mining has the Mining tag in its economic base,
\* and a record classified Urban or Suburban has both Services and Finance,
\* so its economic base is not the default.
C17_ClassifiersAgree ==
    Assembled =>
        \A k \in 1..Len(enhanced_suburbs) :
            LET r == enhanced_suburbs[k]
            IN  /\ r.classification_type = "Mining" =>
                      "Mining" \in SeqRange(r.economic_base)
                /\ r.classification_type \in {"Urban", "Suburban"} =>
                      /\ {"Services", "Finance"} \subseteq SeqRange(r.economic_base)
                      /\ r.economic_base # <<"Mixed Economy">>

\* C17 witness: a suburb classified Mining by the keyword 'goldfield' alone,
\* which the economic base tags Mining by the keyword 'gold'.
C17_Witness ==
    /\ pc = "assembled"
    /\ \E k \in 1..Len(enhanced_suburbs) :
          /\ enhanced_suburbs[k].classification_type = "Mining"
          /\ ~NameHas(enhanced_suburbs[k].sal_name,
                      {<<"m","i","n","e">>, <<"m","i","n","i","n","g">>})
          /\ "Mining" \in SeqRange(enhanced_suburbs[k].economic_base)

====
